---- MODULE Spec2Model ----
(***************************************************************************)
(* Model of the IPv4 and TCP layer codec of pcap2socks                     *)
(* (src/packet/layer/ipv4.rs, src/packet/layer/tcp.rs).                    *)
(*                                                                         *)
(* The state is one layer value (an Ipv4 or a Tcp), together with the last *)
(* call made on it: the caller's buffer before and after the call, the     *)
(* payload and length arguments, and how the call ended (Ok(size),         *)
(* Err(kind, message) or a panic).  Buffers are byte sequences; the        *)
(* packet views of the pnet crate that the code writes through are         *)
(* modelled byte for byte, at the call sites that use them.                *)
(***************************************************************************)
EXTENDS Integers, Sequences, FiniteSets, TLC

VARIABLES layer, arg, op, buffer0, payload, n, buffer, result, text

vars == <<layer, arg, op, buffer0, payload, n, buffer, result, text>>

(***************************************************************************)
(* Bounds of the model.                                                    *)
(***************************************************************************)
\* most option records on a value built by from()
MaxOptions == 2
\* longest payload handed to serialize_with_payload
MaxPayloadLen == 2
\* most spare bytes of a buffer past header plus payload
MaxSlack == 2

(***************************************************************************)
(* Integer helpers: fixed-width arithmetic and bit operations.             *)
(***************************************************************************)
Min(a, b) == IF a <= b THEN a ELSE b
Max(a, b) == IF a >= b THEN a ELSE b
\* a.saturating_sub(b)
SatSub(a, b) == IF a >= b THEN a - b ELSE 0

RECURSIVE BitAnd(_, _)
BitAnd(a, b) ==
    IF a = 0 \/ b = 0 THEN 0
    ELSE ((a % 2) * (b % 2)) + 2 * BitAnd(a \div 2, b \div 2)

RECURSIVE BitOr(_, _)
BitOr(a, b) ==
    IF a = 0 THEN b
    ELSE IF b = 0 THEN a
    ELSE Max(a % 2, b % 2) + 2 * BitOr(a \div 2, b \div 2)

Hi(w) == (w \div 256) % 256
Lo(w) == w % 256
\* big-endian bytes of a 16-bit and of a 32-bit value
Be16(w) == <<Hi(w), Lo(w)>>
Be32(w) == <<(w \div 16777216) % 256, (w \div 65536) % 256, Hi(w), Lo(w)>>

\* u16::MAX and u8::MAX, the limits serialize compares against
U16Max == 65535
U8Max == 255

\* buf with bytes written at 0-based offset off (the caller checks the range)
SetBytes(buf, off, bytes) ==
    [i \in 1..Len(buf) |->
        IF i > off /\ i <= off + Len(bytes) THEN bytes[i - off] ELSE buf[i]]

\* buf[from..to) with 0-based offsets
Slice(buf, from, to) == SubSeq(buf, from + 1, to)

Fill(len, b) == [i \in 1..len |-> b]

(***************************************************************************)
(* Protocol tags and flag constants.                                       *)
(***************************************************************************)
LayerTypes == {"Ethernet", "Arp", "Ipv4", "Tcp", "Udp"}

\* IpNextHeaderProtocols::Tcp / ::Udp
ProtoTcp == 6
ProtoUdp == 17

\* Ipv4Flags::MoreFragments
MoreFragments == 1

\* TcpFlags
FIN == 1
SYN == 2
RST == 4
ACK == 16

NoLayer == [type |-> "None"]

(***************************************************************************)
(* IPv4 layer: constructors and accessors.                                 *)
(***************************************************************************)
Ipv4Value(hl, tl, id, fl, fo, ttl, proto, ck, src, dst, opts, pl) ==
    [type |-> "Ipv4", version |-> 4, header_length |-> hl, dscp |-> 0, ecn |-> 0,
     total_length |-> tl, identification |-> id, flags |-> fl,
     fragment_offset |-> fo, ttl |-> ttl, next_level_protocol |-> proto,
     checksum |-> ck, source |-> src, destination |-> dst,
     options |-> opts, payload |-> pl]

\* Ipv4::new: None for an upper protocol other than Tcp and Udp
Ipv4New(identification, t, src, dst) ==
    IF t \notin {"Tcp", "Udp"} THEN NoLayer
    ELSE Ipv4Value(5, 0, identification, 0, 0, 128,
                   IF t = "Tcp" THEN ProtoTcp ELSE ProtoUdp,
                   0, src, dst, <<>>, <<>>)

Ipv4NewMoreFragment(identification, t, fragment_offset, src, dst) ==
    LET ipv4 == Ipv4New(identification, t, src, dst)
    IN  IF ipv4 = NoLayer THEN NoLayer
        ELSE [ipv4 EXCEPT !.flags = MoreFragments,
                          !.fragment_offset = fragment_offset]

Ipv4NewLastFragment(identification, t, fragment_offset, src, dst) ==
    LET ipv4 == Ipv4New(identification, t, src, dst)
    IN  IF ipv4 = NoLayer THEN NoLayer
        ELSE [ipv4 EXCEPT !.fragment_offset = fragment_offset]

\* a defrag that clears the flags and forgets the offset
Ipv4DefragKeepsOffset(ipv4) ==
    [ipv4 EXCEPT !.flags = 0, !.checksum = 0, !.payload = <<>>]

Ipv4Defrag(ipv4) ==
    [type |-> "Ipv4", version |-> ipv4.version,
     header_length |-> ipv4.header_length, dscp |-> ipv4.dscp, ecn |-> ipv4.ecn,
     total_length |-> ipv4.total_length,
     identification |-> ipv4.identification, flags |-> 0,
     fragment_offset |-> 0, ttl |-> ipv4.ttl,
     next_level_protocol |-> ipv4.next_level_protocol, checksum |-> 0,
     source |-> ipv4.source, destination |-> ipv4.destination,
     options |-> ipv4.options, payload |-> <<>>]

IsMoreFragment(ipv4) == BitAnd(ipv4.flags, MoreFragments) # 0
GetFragmentOffset(ipv4) == ipv4.fragment_offset
IsFragment(ipv4) == IsMoreFragment(ipv4) \/ GetFragmentOffset(ipv4) > 0

(***************************************************************************)
(* TCP layer: constructors and accessors.                                  *)
(***************************************************************************)
TcpNewAck(src_ip_addr, dst_ip_addr, src, dst, sequence, acknowledgement, window) ==
    [type |-> "Tcp", source |-> src, destination |-> dst, sequence |-> sequence,
     acknowledgement |-> acknowledgement, data_offset |-> 5, reserved |-> 0,
     flags |-> ACK, window |-> window, checksum |-> 0, urgent_ptr |-> 0,
     options |-> <<>>, payload |-> <<>>,
     src |-> src_ip_addr, dst |-> dst_ip_addr]

TcpNewAckSyn(src_ip_addr, dst_ip_addr, src, dst, sequence, acknowledgement, window) ==
    LET tcp == TcpNewAck(src_ip_addr, dst_ip_addr, src, dst, sequence,
                         acknowledgement, window)
    IN  [tcp EXCEPT !.flags = BitOr(tcp.flags, SYN)]

\* a new_rst that adds RST to the flags of new_ack instead of replacing them
TcpNewRstAdditive(src_ip_addr, dst_ip_addr, src, dst, sequence, acknowledgement, window) ==
    LET tcp == TcpNewAck(src_ip_addr, dst_ip_addr, src, dst, sequence,
                         acknowledgement, window)
    IN  [tcp EXCEPT !.flags = BitOr(tcp.flags, RST)]

TcpNewRst(src_ip_addr, dst_ip_addr, src, dst, sequence, acknowledgement, window) ==
    LET tcp == TcpNewAck(src_ip_addr, dst_ip_addr, src, dst, sequence,
                         acknowledgement, window)
    IN  [tcp EXCEPT !.flags = RST]

TcpNewAckRst(src_ip_addr, dst_ip_addr, src, dst, sequence, acknowledgement, window) ==
    LET tcp == TcpNewRst(src_ip_addr, dst_ip_addr, src, dst, sequence,
                         acknowledgement, window)
    IN  [tcp EXCEPT !.flags = BitOr(tcp.flags, ACK)]

TcpNewAckFin(src_ip_addr, dst_ip_addr, src, dst, sequence, acknowledgement, window) ==
    LET tcp == TcpNewAck(src_ip_addr, dst_ip_addr, src, dst, sequence,
                         acknowledgement, window)
    IN  [tcp EXCEPT !.flags = BitOr(tcp.flags, FIN)]

IsAck(tcp) == BitAnd(tcp.flags, ACK) # 0
IsRst(tcp) == BitAnd(tcp.flags, RST) # 0
IsSyn(tcp) == BitAnd(tcp.flags, SYN) # 0
IsFin(tcp) == BitAnd(tcp.flags, FIN) # 0

(***************************************************************************)
(* Option records and the packet views the serializers write through.      *)
(* An option record is [copied, class, number, length, data]: length is    *)
(* the record's length byte (absent for the one-byte options 0 and 1),     *)
(* data its value bytes.  A TCP option has copied = class = 0.             *)
(***************************************************************************)
Option(copied, class, number, length, data) ==
    [copied |-> copied, class |-> class, number |-> number,
     length |-> length, data |-> data]

\* XOptionPacket::packet_size(option): the encoded size of a record
OptionSize(opt) == 1 + Len(opt.length) + Len(opt.data)

RECURSIVE OptionsSize(_)
OptionsSize(opts) ==
    IF opts = <<>> THEN 0 ELSE OptionSize(Head(opts)) + OptionsSize(Tail(opts))

\* first byte of an encoded option, and the option number read back from it
OptionFirstByte(proto, opt) ==
    IF proto = "Ipv4"
    THEN (opt.copied % 2) * 128 + (opt.class % 4) * 32 + (opt.number % 32)
    ELSE opt.number % 256
OptionNumberOf(proto, b0) == IF proto = "Ipv4" THEN b0 % 32 ELSE b0
\* number of length bytes an option number carries (none for EOL and NOP)
OptionLengthFn(number) == IF number \in {0, 1} THEN 0 ELSE 1
\* number of data bytes declared by the length byte found in the view
OptionPayloadLength(view, lenfn) ==
    IF lenfn = 1 /\ Len(view) >= 2 /\ view[2] >= 2 THEN view[2] - 2 ELSE 0

\* MutableXOptionPacket::new(&mut packet[off..]).unwrap().populate(opt), then
\* packet_size() of the view: panics when the view is empty, when a field is
\* longer than the view declares, or when a write leaves the buffer
PopulateOption(proto, buf, off, opt) ==
    LET avail == Len(buf) - off
        b0    == OptionFirstByte(proto, opt)
        lenfn == OptionLengthFn(OptionNumberOf(proto, b0))
    IN  IF avail < 1 THEN [panic |-> TRUE, buf |-> buf, size |-> 0]
        ELSE
        LET buf1 == SetBytes(buf, off, <<b0>>)
        IN  IF Len(opt.length) > lenfn \/ 1 + Len(opt.length) > avail
            THEN [panic |-> TRUE, buf |-> buf1, size |-> 0]
            ELSE
            LET buf2 == SetBytes(buf1, off + 1, opt.length)
                plen == OptionPayloadLength(Slice(buf2, off, Len(buf2)), lenfn)
            IN  IF Len(opt.data) > plen \/ 1 + lenfn + Len(opt.data) > avail
                THEN [panic |-> TRUE, buf |-> buf2, size |-> 0]
                ELSE [panic |-> FALSE,
                      buf   |-> SetBytes(buf2, off + 1 + lenfn, opt.data),
                      size  |-> 1 + lenfn + plen]

\* set_options: the records one after another from offset off; the view
\* asserts that they stay inside the options area [.., end) that the header
\* length already written into the buffer declares
RECURSIVE SetOptions(_, _, _, _, _)
SetOptions(proto, buf, opts, off, end) ==
    IF opts = <<>> THEN [panic |-> FALSE, buf |-> buf]
    ELSE LET r == PopulateOption(proto, buf, off, Head(opts))
         IN  IF r.panic THEN [panic |-> TRUE, buf |-> r.buf]
             ELSE IF off + r.size > end THEN [panic |-> TRUE, buf |-> r.buf]
             ELSE SetOptions(proto, r.buf, Tail(opts), off + r.size, end)

(***************************************************************************)
(* The Internet checksum as the views compute it.                          *)
(***************************************************************************)
\* sum of the big-endian 16-bit words of data, the word at index skipword
\* left out, an odd last byte counted as the high byte of a word
RECURSIVE SumBeWords(_, _, _)
SumBeWords(data, skipword, i) ==
    IF 2 * i >= Len(data) THEN 0
    ELSE (IF i = skipword THEN 0
          ELSE IF 2 * i + 2 <= Len(data)
               THEN data[2 * i + 1] * 256 + data[2 * i + 2]
               ELSE data[2 * i + 1] * 256)
         + SumBeWords(data, skipword, i + 1)

RECURSIVE Finalize(_)
Finalize(sum) ==
    IF sum \div 65536 # 0 THEN Finalize((sum \div 65536) + (sum % 65536))
    ELSE 65535 - sum

\* util::checksum(data, skipword)
Checksum(data, skipword) == Finalize(SumBeWords(data, skipword, 0))

\* util::ipv4_checksum(data, skipword, [], source, destination, protocol):
\* the pseudo-header carries the length of data
PseudoChecksum(data, skipword, source, destination, proto) ==
    Finalize(source[1] * 256 + source[2] + source[3] * 256 + source[4]
             + destination[1] * 256 + destination[2]
             + destination[3] * 256 + destination[4]
             + proto + Len(data)
             + SumBeWords(data, skipword, 0))

(***************************************************************************)
(* Results of a call.                                                      *)
(***************************************************************************)
NoResult == [kind |-> "None", size |-> 0, error |-> "", msg |-> ""]
Ok(size) == [kind |-> "Ok", size |-> size, error |-> "", msg |-> ""]
Err(error, msg) == [kind |-> "Err", size |-> 0, error |-> error, msg |-> msg]
Panic == [kind |-> "Panic", size |-> 0, error |-> "", msg |-> ""]

BufferTooSmall == Err("WriteZero", "buffer too small")

(***************************************************************************)
(* Layer::get_size, for both layers: XPacket::packet_size(&layer) counts   *)
(* the fixed header, one byte per option record and the value's own        *)
(* payload; the loop replaces each record's one byte by its encoded size.  *)
(***************************************************************************)
RECURSIVE GetSizeLoop(_, _, _)
GetSizeLoop(opts, size, options_size) ==
    IF opts = <<>> THEN size + options_size
    ELSE GetSizeLoop(Tail(opts), size - 1, options_size + OptionSize(Head(opts)))

GetSize(v) == GetSizeLoop(v.options, 20 + Len(v.options) + Len(v.payload), 0)

(***************************************************************************)
(* Ipv4::serialize and Ipv4::serialize_with_payload.                       *)
(***************************************************************************)
\* the 20 fixed bytes packet.populate(&self.layer) writes
Ipv4HeaderBytes(v) ==
    <<(v.version % 16) * 16 + (v.header_length % 16),
      (v.dscp % 64) * 4 + (v.ecn % 4)>>
    \o Be16(v.total_length) \o Be16(v.identification)
    \o <<(v.flags % 8) * 32 + ((v.fragment_offset \div 256) % 32),
         v.fragment_offset % 256,
         v.ttl % 256, v.next_level_protocol % 256>>
    \o Be16(v.checksum) \o v.source \o v.destination

\* header length in words and total length as the view reads them back
Ipv4HeaderLengthField(buf) == buf[1] % 16
Ipv4TotalLengthField(buf) == buf[3] * 256 + buf[4]
Ipv4OptionsLength(buf) == SatSub(Ipv4HeaderLengthField(buf) * 4, 20)
Ipv4PayloadLength(buf) ==
    SatSub(Ipv4TotalLengthField(buf), Ipv4HeaderLengthField(buf) * 4)

\* packet.populate(&self.layer) on a view of at least 20 bytes
Ipv4Populate(v, buf) ==
    LET buf1 == SetBytes(buf, 0, Ipv4HeaderBytes(v))
        co   == 20 + Ipv4OptionsLength(buf1)
        r    == SetOptions("Ipv4", buf1, v.options, 20, co)
    IN  IF r.panic THEN r
        ELSE IF Len(v.payload) > Ipv4PayloadLength(r.buf)
                \/ co + Len(v.payload) > Len(r.buf)
             THEN [panic |-> TRUE, buf |-> r.buf]
             ELSE [panic |-> FALSE, buf |-> SetBytes(r.buf, co, v.payload)]

\* ipv4::checksum(&packet): over the header the length field declares,
\* clamped to the view, the checksum word left out
Ipv4Checksum(buf) ==
    LET declared == Ipv4HeaderLengthField(buf) * 4
        length   == IF declared < 20 THEN 20
                    ELSE IF declared > Len(buf) THEN Len(buf) ELSE declared
    IN  Checksum(Slice(buf, 0, length), 5)

\* the guard off by one: it turns the largest length away
TotalLengthTooLargeOffByOne(len) == len >= U16Max

\* the guard of set_total_length: n > u16::MAX
TotalLengthTooLarge(len) == len > U16Max

Ipv4Serialize(v, buf, len) ==
    IF Len(buf) < 20 THEN [res |-> BufferTooSmall, buf |-> buf]
    ELSE
    LET p == Ipv4Populate(v, buf)
        header_length == GetSize(v)
    IN  IF p.panic THEN [res |-> Panic, buf |-> p.buf]
        ELSE IF header_length \div 4 > U8Max
        THEN [res |-> Err("Other", "IPv4 too big"), buf |-> p.buf]
        ELSE
        LET buf1 == SetBytes(p.buf, 0,
                        <<(p.buf[1] \div 16) * 16 + ((header_length \div 4) % 16)>>)
        IN  IF TotalLengthTooLarge(len)
            THEN [res |-> Err("InvalidInput", "length too big"), buf |-> buf1]
            ELSE
            LET buf2 == SetBytes(buf1, 2, Be16(len))
                buf3 == SetBytes(buf2, 10, Be16(Ipv4Checksum(buf2)))
            IN  [res |-> Ok(header_length), buf |-> buf3]

\* a serialize_with_payload that copies the payload behind the header, as the
\* TCP layer does
Ipv4SerializeWithPayloadCopies(v, buf, bytes, len) ==
    LET r == Ipv4Serialize(v, buf, len)
    IN  IF r.res.kind = "Ok" /\ GetSize(v) + Len(bytes) <= Len(buf)
        THEN [res |-> r.res, buf |-> SetBytes(r.buf, GetSize(v), bytes)]
        ELSE r

Ipv4SerializeWithPayload(v, buf, bytes, len) == Ipv4Serialize(v, buf, len)

(***************************************************************************)
(* Tcp::serialize and Tcp::serialize_with_payload.                         *)
(***************************************************************************)
TcpHeaderBytes(v) ==
    Be16(v.source) \o Be16(v.destination)
    \o Be32(v.sequence) \o Be32(v.acknowledgement)
    \o <<(v.data_offset % 16) * 16 + (v.reserved % 8) * 2 + ((v.flags \div 256) % 2),
         v.flags % 256>>
    \o Be16(v.window) \o Be16(v.checksum) \o Be16(v.urgent_ptr)

TcpDataOffsetField(buf) == buf[13] \div 16
TcpChecksumField(buf) == buf[17] * 256 + buf[18]
TcpOptionsLength(buf) ==
    IF TcpDataOffsetField(buf) > 5 THEN TcpDataOffsetField(buf) * 4 - 20 ELSE 0

\* packet.set_payload(bytes): copied behind the options area the data offset
\* in the buffer declares; the write panics when it leaves the buffer
TcpSetPayload(buf, bytes) ==
    LET co == 20 + TcpOptionsLength(buf)
    IN  IF co + Len(bytes) > Len(buf) THEN [panic |-> TRUE, buf |-> buf]
        ELSE [panic |-> FALSE, buf |-> SetBytes(buf, co, bytes)]

\* packet.populate(&self.layer) on a view of at least 20 bytes
TcpPopulate(v, buf) ==
    LET buf1 == SetBytes(buf, 0, TcpHeaderBytes(v))
        r    == SetOptions("Tcp", buf1, v.options, 20, 20 + TcpOptionsLength(buf1))
    IN  IF r.panic THEN r ELSE TcpSetPayload(r.buf, v.payload)

\* tcp::ipv4_checksum(&packet, &src, &dst): over all of packet.packet(), the
\* bytes of the whole view, with their number as the segment length
TcpChecksum(buf, src, dst) == PseudoChecksum(buf, 8, src, dst, ProtoTcp)

\* the common tail of both serializers: fix the data offset, then the checksum
TcpFixLengthAndChecksum(v, buf, returned) ==
    LET header_length == GetSize(v)
    IN  IF header_length \div 4 > U8Max
        THEN [res |-> Err("Other", "TCP too big"), buf |-> buf]
        ELSE
        LET buf1 == SetBytes(buf, 12,
                        <<((header_length \div 4) % 16) * 16 + (buf[13] % 16)>>)
            buf2 == SetBytes(buf1, 16, Be16(TcpChecksum(buf1, v.src, v.dst)))
        IN  [res |-> Ok(returned), buf |-> buf2]

TcpSerialize(v, buf, len) ==
    IF Len(buf) < 20 THEN [res |-> BufferTooSmall, buf |-> buf]
    ELSE
    LET p == TcpPopulate(v, buf)
    IN  IF p.panic THEN [res |-> Panic, buf |-> p.buf]
        ELSE TcpFixLengthAndChecksum(v, p.buf, GetSize(v))

TcpSerializeWithPayload(v, buf, bytes, len) ==
    IF Len(buf) < 20 THEN [res |-> BufferTooSmall, buf |-> buf]
    ELSE
    LET p == TcpPopulate(v, buf)
    IN  IF p.panic THEN [res |-> Panic, buf |-> p.buf]
        ELSE
        LET q == TcpSetPayload(p.buf, bytes)
        IN  IF q.panic THEN [res |-> Panic, buf |-> q.buf]
            ELSE TcpFixLengthAndChecksum(v, q.buf, GetSize(v) + len)

(***************************************************************************)
(* Ipv4::parse and Tcp::parse: every field read from a captured packet.    *)
(***************************************************************************)
\* packet.get_options(): the records found in the options area, each read as
\* far as the area reaches
RECURSIVE ParseOptions(_, _)
ParseOptions(proto, area) ==
    IF area = <<>> THEN <<>>
    ELSE LET b0    == area[1]
             lenfn == OptionLengthFn(OptionNumberOf(proto, b0))
             plen  == OptionPayloadLength(area, lenfn)
             size  == Min(1 + lenfn + plen, Len(area))
             opt   == Option(IF proto = "Ipv4" THEN b0 \div 128 ELSE 0,
                             IF proto = "Ipv4" THEN (b0 \div 32) % 4 ELSE 0,
                             OptionNumberOf(proto, b0),
                             Slice(area, 1, Min(1 + lenfn, Len(area))),
                             Slice(area, 1 + lenfn, size))
         IN  <<opt>> \o ParseOptions(proto, Slice(area, size, Len(area)))

Ipv4Parse(packet) ==
    [type |-> "Ipv4", version |-> packet[1] \div 16,
     header_length |-> packet[1] % 16,
     dscp |-> packet[2] \div 4, ecn |-> packet[2] % 4,
     total_length |-> packet[3] * 256 + packet[4],
     identification |-> packet[5] * 256 + packet[6],
     flags |-> packet[7] \div 32,
     fragment_offset |-> (packet[7] % 32) * 256 + packet[8],
     ttl |-> packet[9], next_level_protocol |-> packet[10],
     checksum |-> packet[11] * 256 + packet[12],
     source |-> Slice(packet, 12, 16), destination |-> Slice(packet, 16, 20),
     options |-> ParseOptions("Ipv4",
                    Slice(packet, 20,
                          Min(20 + Ipv4OptionsLength(packet), Len(packet)))),
     payload |-> <<>>]

TcpParse(packet, src, dst) ==
    [type |-> "Tcp",
     source |-> packet[1] * 256 + packet[2],
     destination |-> packet[3] * 256 + packet[4],
     sequence |-> ((packet[5] * 256 + packet[6]) * 256 + packet[7]) * 256 + packet[8],
     acknowledgement |->
         ((packet[9] * 256 + packet[10]) * 256 + packet[11]) * 256 + packet[12],
     data_offset |-> packet[13] \div 16,
     reserved |-> (packet[13] \div 2) % 8,
     flags |-> (packet[13] % 2) * 256 + packet[14],
     window |-> packet[15] * 256 + packet[16],
     checksum |-> packet[17] * 256 + packet[18],
     urgent_ptr |-> packet[19] * 256 + packet[20],
     options |-> ParseOptions("Tcp",
                    Slice(packet, 20,
                          Min(20 + TcpOptionsLength(packet), Len(packet)))),
     payload |-> <<>>,
     src |-> src, dst |-> dst]

(***************************************************************************)
(* impl Display for Ipv4.  The text is the sequence of the pieces written: *)
(* the literal parts of the format string, and the characters of each      *)
(* formatted number.                                                       *)
(***************************************************************************)
Digit(d) == <<"0", "1", "2", "3", "4", "5", "6", "7", "8", "9">>[d + 1]

RECURSIVE Decimal(_)
Decimal(k) == IF k < 10 THEN <<Digit(k)>> ELSE Decimal(k \div 10) \o <<Digit(k % 10)>>

AddrText(a) ==
    Decimal(a[1]) \o <<".">> \o Decimal(a[2]) \o <<".">>
    \o Decimal(a[3]) \o <<".">> \o Decimal(a[4])

FragmentClause(bytes) == <<", Fragment = ">> \o Decimal(bytes)

DisplayHead(v) ==
    <<"IPv4", ": ">> \o AddrText(v.source) \o <<" -> ">> \o AddrText(v.destination)
    \o <<", Length = ">> \o Decimal(v.total_length)

\* get_fragment_offset() * 8 is a u16 multiplication: when the product does
\* not fit, a build with overflow checks panics and a build without wraps
Ipv4Display(v, overflow_checks) ==
    LET product == GetFragmentOffset(v) * 8
    IN  IF ~IsFragment(v) THEN [res |-> Ok(0), text |-> DisplayHead(v)]
        ELSE IF product > U16Max /\ overflow_checks
        THEN [res |-> Panic, text |-> <<>>]
        ELSE [res |-> Ok(0),
              text |-> DisplayHead(v) \o FragmentClause(product % (U16Max + 1))]

(***************************************************************************)
(* Inputs of the model.                                                    *)
(***************************************************************************)
Addr1 == <<10, 0, 0, 1>>
Addr2 == <<10, 0, 0, 2>>
AddrPairs == {<<Addr1, Addr2>>, <<Addr2, Addr1>>}

Identifications == {4660}
\* in 8-byte units: 8191 is the largest the 13-bit wire field holds
FragmentOffsets == {0, 1, 185, 8191, 8192, 65535}

Ports == {<<1234, 80>>}
Sequences == {1000, 2147483647}
Acknowledgements == {0}
Windows == {0, 65535}

\* captured IPv4 headers: plain (don't-fragment), a first fragment at offset
\* 185, a last fragment at the largest offset, and one with a router-alert
\* option
CapturedIpv4 ==
    { <<69, 0, 0, 60, 28, 70, 64, 0, 64, 6, 177, 230,
        172, 16, 10, 99, 172, 16, 10, 12>>,
      <<69, 0, 5, 220, 18, 52, 32, 185, 64, 6, 0, 0,
        10, 0, 0, 1, 10, 0, 0, 2>>,
      <<69, 0, 0, 40, 18, 52, 31, 255, 64, 17, 0, 0,
        10, 0, 0, 1, 10, 0, 0, 2>>,
      <<70, 0, 0, 32, 0, 1, 0, 0, 1, 2, 0, 0,
        10, 0, 0, 1, 224, 0, 0, 1, 148, 4, 0, 0>> }

\* captured TCP headers: a plain ACK, a SYN with a maximum-segment-size
\* option, and an ACK with two no-ops and a timestamp option
CapturedTcp ==
    { <<4, 210, 0, 80, 0, 0, 3, 232, 0, 0, 0, 0, 80, 16, 255, 255, 0, 0, 0, 0>>,
      <<4, 210, 0, 80, 0, 0, 3, 232, 0, 0, 0, 0, 96, 2, 255, 255, 0, 0, 0, 0,
        2, 4, 5, 180>>,
      <<0, 80, 4, 210, 0, 0, 0, 1, 0, 0, 3, 233, 128, 16, 1, 0, 0, 0, 0, 0,
        1, 1, 8, 10, 0, 0, 0, 7, 0, 0, 0, 9>> }

\* option records handed to from(): one of 4 bytes and one of 40 bytes
Ipv4FromOptions ==
    { Option(1, 0, 20, <<4>>, <<0, 0>>),
      Option(0, 0, 7, <<40>>, <<4>> \o Fill(37, 0)) }
TcpFromOptions ==
    { Option(0, 0, 2, <<4>>, <<5, 180>>),
      Option(0, 0, 30, <<40>>, Fill(38, 0)) }

OptionLists(alphabet) == UNION {[1..k -> alphabet] : k \in 0..MaxOptions}

\* the length in words that holds the records, as far as 4 bits can say it
FitWords(opts) == Min(15, (20 + OptionsSize(opts) + 3) \div 4)

\* payloads stored in a value handed to from(): they count in get_size()
StoredPayloads == {Fill(44, 0), Fill(1004, 0)}

\* ipv4::Ipv4 structs handed to Ipv4::from: with option records, under the
\* header length that holds them (15 words when 4 bits cannot say more), or
\* with a stored payload, which get_size() counts
Ipv4FromInputs ==
    { Ipv4Value(FitWords(opts), 0, 4660, 0, 0, 64, ProtoTcp, 0, Addr1, Addr2,
                opts, <<>>) : opts \in OptionLists(Ipv4FromOptions) }
    \cup
    { Ipv4Value(5, x[1], 4660, 0, 0, 64, ProtoTcp, 0, Addr1, Addr2, <<>>, x[2]) :
        x \in {0, 1500} \X StoredPayloads }

\* tcp::Tcp structs handed to Tcp::from, likewise
TcpFromInputs ==
    { [TcpNewAck(Addr1, Addr2, 1234, 80, 1000, 0, 65535)
          EXCEPT !.options = opts, !.data_offset = FitWords(opts)] :
        opts \in OptionLists(TcpFromOptions) }
    \cup
    { [TcpNewAck(Addr1, Addr2, 1234, 80, 1000, 0, 65535) EXCEPT !.payload = pl] :
        pl \in StoredPayloads }

\* buffers: filled with one byte value; lengths around the 20-byte minimum,
\* the header size and header plus payload
Fills == {0, 171}
BufferLens(size, plen) ==
    { l \in {0, 19, 20, size - 1, size, size + plen - 1}
            \cup ((size + plen)..(size + plen + MaxSlack)) : l >= 0 }

Payloads == {Fill(k, 205) : k \in 0..MaxPayloadLen}

Ipv4Lengths == {40, U16Max, U16Max + 1}
TcpLengths(plen) == {0, plen, 40}

(***************************************************************************)
(* Actions: the constructors replace the layer value; the calls of the     *)
(* Layer trait and of Display leave it alone and record how they ended.    *)
(***************************************************************************)
Init ==
    /\ layer = NoLayer
    /\ arg = NoLayer
    /\ op = "init"
    /\ buffer0 = <<>>
    /\ payload = <<>>
    /\ n = 0
    /\ buffer = <<>>
    /\ result = NoResult
    /\ text = <<>>

\* a value is built into the empty slot, may be defragmented, is consumed by
\* one call of the Layer trait or of Display, and is then dropped: the calls
\* take &self and leave the value as it is, so a second call on it reaches
\* nothing that the first one does not
Idle == layer = NoLayer /\ op = "init"
Calls == {"serialize", "serialize_with_payload", "fmt"}
Live == layer # NoLayer /\ op \notin Calls

NoCall ==
    /\ buffer0' = <<>>
    /\ payload' = <<>>
    /\ n' = 0
    /\ buffer' = <<>>
    /\ result' = NoResult
    /\ text' = <<>>

New ==
    /\ Idle
    /\ \E id \in Identifications, t \in LayerTypes, a \in AddrPairs :
        layer' = Ipv4New(id, t, a[1], a[2])
    /\ arg' = NoLayer
    /\ op' = "new"
    /\ NoCall

NewMoreFragment ==
    /\ Idle
    /\ \E id \in Identifications, t \in LayerTypes, fo \in FragmentOffsets,
          a \in AddrPairs :
        layer' = Ipv4NewMoreFragment(id, t, fo, a[1], a[2])
    /\ arg' = NoLayer
    /\ op' = "new_more_fragment"
    /\ NoCall

NewLastFragment ==
    /\ Idle
    /\ \E id \in Identifications, t \in LayerTypes, fo \in FragmentOffsets,
          a \in AddrPairs :
        layer' = Ipv4NewLastFragment(id, t, fo, a[1], a[2])
    /\ arg' = NoLayer
    /\ op' = "new_last_fragment"
    /\ NoCall

\* Ipv4::from wraps the struct as it is
From ==
    /\ Idle
    /\ \E ipv4 \in Ipv4FromInputs : layer' = ipv4
    /\ arg' = NoLayer
    /\ op' = "from"
    /\ NoCall

Parse ==
    /\ Idle
    /\ \E packet \in CapturedIpv4 : layer' = Ipv4Parse(packet)
    /\ arg' = NoLayer
    /\ op' = "parse"
    /\ NoCall

\* defrag(&ipv4): arg keeps the value it was applied to
Defrag ==
    /\ Live
    /\ layer.type = "Ipv4"
    /\ layer' = Ipv4Defrag(layer)
    /\ arg' = layer
    /\ op' = "defrag"
    /\ NoCall

NewAck ==
    /\ Idle
    /\ \E a \in AddrPairs, p \in Ports, s \in Sequences, k \in Acknowledgements,
          w \in Windows :
        layer' = TcpNewAck(a[1], a[2], p[1], p[2], s, k, w)
    /\ arg' = NoLayer
    /\ op' = "new_ack"
    /\ NoCall

NewAckSyn ==
    /\ Idle
    /\ \E a \in AddrPairs, p \in Ports, s \in Sequences, k \in Acknowledgements,
          w \in Windows :
        layer' = TcpNewAckSyn(a[1], a[2], p[1], p[2], s, k, w)
    /\ arg' = NoLayer
    /\ op' = "new_ack_syn"
    /\ NoCall

NewAckRst ==
    /\ Idle
    /\ \E a \in AddrPairs, p \in Ports, s \in Sequences, k \in Acknowledgements,
          w \in Windows :
        layer' = TcpNewAckRst(a[1], a[2], p[1], p[2], s, k, w)
    /\ arg' = NoLayer
    /\ op' = "new_ack_rst"
    /\ NoCall

NewAckFin ==
    /\ Idle
    /\ \E a \in AddrPairs, p \in Ports, s \in Sequences, k \in Acknowledgements,
          w \in Windows :
        layer' = TcpNewAckFin(a[1], a[2], p[1], p[2], s, k, w)
    /\ arg' = NoLayer
    /\ op' = "new_ack_fin"
    /\ NoCall

NewRst ==
    /\ Idle
    /\ \E a \in AddrPairs, p \in Ports, s \in Sequences, k \in Acknowledgements,
          w \in Windows :
        layer' = TcpNewRst(a[1], a[2], p[1], p[2], s, k, w)
    /\ arg' = NoLayer
    /\ op' = "new_rst"
    /\ NoCall

\* Tcp::from wraps the struct as it is
TcpFrom ==
    /\ Idle
    /\ \E tcp \in TcpFromInputs : layer' = tcp
    /\ arg' = NoLayer
    /\ op' = "tcp_from"
    /\ NoCall

TcpParsePacket ==
    /\ Idle
    /\ \E packet \in CapturedTcp, a \in AddrPairs :
        layer' = TcpParse(packet, a[1], a[2])
    /\ arg' = NoLayer
    /\ op' = "tcp_parse"
    /\ NoCall

Called(name, buf, bytes, len, r) ==
    /\ op' = name
    /\ buffer0' = buf
    /\ payload' = bytes
    /\ n' = len
    /\ buffer' = r.buf
    /\ result' = r.res
    /\ text' = <<>>
    /\ UNCHANGED <<layer, arg>>

SerializeIpv4 ==
    /\ Live
    /\ layer.type = "Ipv4"
    /\ \E l \in BufferLens(GetSize(layer), 0), b \in Fills, len \in Ipv4Lengths :
        Called("serialize", Fill(l, b), <<>>, len,
               Ipv4Serialize(layer, Fill(l, b), len))

SerializeWithPayloadIpv4 ==
    /\ Live
    /\ layer.type = "Ipv4"
    /\ \E bytes \in Payloads :
       \E l \in BufferLens(GetSize(layer), Len(bytes)), b \in Fills,
          len \in Ipv4Lengths :
        Called("serialize_with_payload", Fill(l, b), bytes, len,
               Ipv4SerializeWithPayload(layer, Fill(l, b), bytes, len))

SerializeTcp ==
    /\ Live
    /\ layer.type = "Tcp"
    /\ \E l \in BufferLens(GetSize(layer), 0), b \in Fills :
        Called("serialize", Fill(l, b), <<>>, GetSize(layer),
               TcpSerialize(layer, Fill(l, b), GetSize(layer)))

SerializeWithPayloadTcp ==
    /\ Live
    /\ layer.type = "Tcp"
    /\ \E bytes \in Payloads :
       \E l \in BufferLens(GetSize(layer), Len(bytes)), b \in Fills,
          len \in TcpLengths(Len(bytes)) :
        Called("serialize_with_payload", Fill(l, b), bytes, len,
               TcpSerializeWithPayload(layer, Fill(l, b), bytes, len))

Fmt ==
    /\ Live
    /\ layer.type = "Ipv4"
    /\ \E overflow_checks \in BOOLEAN :
        LET r == Ipv4Display(layer, overflow_checks)
        IN  /\ result' = r.res
            /\ text' = r.text
    /\ op' = "fmt"
    /\ buffer0' = <<>>
    /\ payload' = <<>>
    /\ n' = 0
    /\ buffer' = <<>>
    /\ UNCHANGED <<layer, arg>>

\* the caller drops the value (or the absent result of a constructor)
Drop ==
    /\ op # "init"
    /\ layer' = NoLayer
    /\ arg' = NoLayer
    /\ op' = "init"
    /\ NoCall

Next ==
    \/ New \/ NewMoreFragment \/ NewLastFragment \/ Parse \/ From \/ Defrag
    \/ NewAck \/ NewAckSyn \/ NewAckRst \/ NewAckFin \/ NewRst
    \/ TcpParsePacket \/ TcpFrom
    \/ SerializeIpv4 \/ SerializeWithPayloadIpv4
    \/ SerializeTcp \/ SerializeWithPayloadTcp
    \/ Fmt \/ Drop

Spec == Init /\ [][Next]_vars

(***************************************************************************)
(* Properties.                                                             *)
(***************************************************************************)
Serialized == op = "serialize"
SerializedWithPayload == op = "serialize_with_payload"
HeaderTooLarge(v) ==
    Err("Other", IF v.type = "Ipv4" THEN "IPv4 too big" ELSE "TCP too big")
LengthInWordsField(v, buf) ==
    IF v.type = "Ipv4" THEN Ipv4HeaderLengthField(buf) ELSE TcpDataOffsetField(buf)

\* C1: serialize of either layer into a buffer shorter than get_size() ends
\* with the buffer-too-small failure, and in no other way.
C1_ShortBufferFails ==
    (Serialized /\ Len(buffer0) < GetSize(layer)) => result = BufferTooSmall

\* C2: Tcp::serialize_with_payload into a buffer shorter than get_size() plus
\* the payload length ends with the buffer-too-small failure.
C2_ShortBufferWithPayloadFails ==
    (SerializedWithPayload /\ layer.type = "Tcp"
        /\ Len(buffer0) < GetSize(layer) + Len(payload))
    => result = BufferTooSmall

\* C3: when get_size()/4 exceeds 15, the largest value of the 4-bit
\* length-in-words field, serialize and serialize_with_payload into a buffer
\* that is large enough end with the header-too-large failure; and every
\* successful call leaves get_size()/4 in that field.
C3_HeaderTooLarge ==
    (op \in {"serialize", "serialize_with_payload"}
        /\ Len(buffer0) >= GetSize(layer) + Len(payload))
    => /\ GetSize(layer) \div 4 > 15 => result = HeaderTooLarge(layer)
       /\ result.kind = "Ok" =>
              LengthInWordsField(layer, buffer) = GetSize(layer) \div 4

\* C4: a successful Tcp::serialize_with_payload returns get_size() plus the
\* payload length, whatever the total_packet_length argument n is.
C4_ReturnsHeaderPlusPayload ==
    (SerializedWithPayload /\ layer.type = "Tcp" /\ result.kind = "Ok")
    => result.size = GetSize(layer) + Len(payload)

\* C5: the checksum Tcp::serialize writes is the Internet checksum over the
\* pseudo-header with segment length get_size() and the get_size() header
\* bytes alone, whatever the length of the buffer and the bytes behind the
\* header.
C5_ChecksumOverHeaderOnly ==
    (Serialized /\ layer.type = "Tcp" /\ result.kind = "Ok")
    => TcpChecksumField(buffer)
       = PseudoChecksum(Slice(buffer, 0, GetSize(layer)), 8,
                        layer.src, layer.dst, ProtoTcp)

C7_PayloadIgnored ==
    (SerializedWithPayload /\ layer.type = "Ipv4")
    => /\ result = Ipv4Serialize(layer, buffer0, n).res
       /\ buffer = Ipv4Serialize(layer, buffer0, n).buf
       /\ Len(buffer) = Len(buffer0)
       /\ \A i \in (GetSize(layer) + 1)..Len(buffer) : buffer[i] = buffer0[i]

\* a successful call with a payload the buffer has room for
C7_Witness ==
    /\ SerializedWithPayload /\ layer.type = "Ipv4"
    /\ payload # <<>> /\ result.kind = "Ok"
    /\ Len(buffer0) >= GetSize(layer) + Len(payload)

\* C8: defrag(X) is no fragment (more-fragments flag clear, offset 0), has a
\* zero checksum, and keeps X's identification, addresses, upper protocol,
\* TTL and option records.
C8_Defrag ==
    op = "defrag"
    => /\ ~IsFragment(layer)
       /\ ~IsMoreFragment(layer) /\ GetFragmentOffset(layer) = 0
       /\ layer.checksum = 0
       /\ layer.identification = arg.identification
       /\ layer.source = arg.source /\ layer.destination = arg.destination
       /\ layer.next_level_protocol = arg.next_level_protocol
       /\ layer.ttl = arg.ttl
       /\ layer.options = arg.options

\* defrag of a fragment that has both the flag and an offset
C8_Witness ==
    /\ op = "defrag" /\ IsMoreFragment(arg) /\ GetFragmentOffset(arg) > 0

\* C9: the flags of each TCP constructor: new_ack ACK only; new_ack_syn ACK
\* and SYN; new_rst RST only, never ACK; new_ack_rst RST and ACK;
\* new_ack_fin ACK and FIN; and no other flag.
C9_ConstructorFlags ==
    /\ op = "new_ack" => layer.flags = ACK
    /\ op = "new_ack_syn" =>
          layer.flags = ACK + SYN /\ IsAck(layer) /\ IsSyn(layer) /\ ~IsRst(layer)
    /\ op = "new_rst" => layer.flags = RST /\ IsRst(layer) /\ ~IsAck(layer)
    /\ op = "new_ack_rst" => layer.flags = RST + ACK /\ IsRst(layer) /\ IsAck(layer)
    /\ op = "new_ack_fin" => layer.flags = ACK + FIN /\ IsAck(layer) /\ IsFin(layer)

\* a reset built by new_rst
C9_Witness == op = "new_rst" /\ IsRst(layer)

\* C10: the Display text ends with a fragment clause exactly when
\* is_fragment() holds, and the clause shows 8 times the stored offset as an
\* integer, for every 16-bit offset; formatting never aborts.
C10_FragmentClause ==
    op = "fmt"
    => /\ result.kind = "Ok"
       /\ text = DisplayHead(layer)
                 \o (IF IsFragment(layer)
                     THEN FragmentClause(8 * GetFragmentOffset(layer))
                     ELSE <<>>)

====
